---- MODULE Spec2Model ----
(***************************************************************************)
(* Model of src/src/utils/getProjectInfo.ts: the monorepo / workspace      *)
(* detection and aggregation engine behind the project_info operation.     *)
(*                                                                         *)
(* JavaScript strings that the code inspects character by character        *)
(* (workspace globs, relative paths) are sequences of tokens: the three    *)
(* characters the code and path.join treat specially, "/", "*" and ".",    *)
(* and opaque chunks of ordinary characters such as "packages".            *)
(* JavaScript values of uncertain shape (fields of parsed JSON files) are  *)
(* records tagged by t: "undefined", "str", "num", "arr", "obj".           *)
(* A function that can throw returns Throw in place of a value.            *)
(***************************************************************************)
EXTENDS Integers, Sequences, FiniteSets, TLC

\* fs: the directory tree; op, arg, ret: the last call, its argument and its result;
\* frame: the position and the locals of a getProjectInfo invocation that is taken
\* read by read; snapshots: the trees that have existed since that invocation began.
VARIABLES fs, op, arg, ret, frame, snapshots

vars == <<fs, op, arg, ret, frame, snapshots>>

\* No invocation is in flight.
Idle == [pc |-> "idle"]

(***************************************************************************)
(* Bounds of the model.                                                    *)
(***************************************************************************)
MaxEntries == 2
MaxDecls == 2

(***************************************************************************)
(* JavaScript values.                                                      *)
(***************************************************************************)
Undefined == [t |-> "undefined"]
Throw == [t |-> "throw"]
Null == [t |-> "null"]
Num == [t |-> "num"]
Str(s) == [t |-> "str", v |-> s]
\* One of the fixed labels the code returns ('Yarn', 'React', "Unknown", ...)
Label(s) == [t |-> "label", v |-> s]
Arr(s) == [t |-> "arr", v |-> s]

Truthy(x) ==
    CASE x.t = "undefined" -> FALSE
      [] x.t = "null" -> FALSE
      [] x.t = "str" -> x.v # <<>>
      [] OTHER -> TRUE

\* a || b
OrElse(a, b) == IF Truthy(a) THEN a ELSE b

\* for (const x of v) runs without a TypeError
Iterable(v) == v.t = "arr"

(***************************************************************************)
(* Strings and node's posix path module.                                   *)
(***************************************************************************)
RECURSIVE SplitAcc(_, _, _)
SplitAcc(s, cur, acc) ==
    IF s = <<>> THEN Append(acc, cur)
    ELSE IF Head(s) = "/" THEN SplitAcc(Tail(s), <<>>, Append(acc, cur))
    ELSE SplitAcc(Tail(s), Append(cur, Head(s)), acc)

\* s.split('/')
Split(s) == SplitAcc(s, <<>>, <<>>)

RECURSIVE JoinSegs(_)
JoinSegs(segs) ==
    IF segs = <<>> THEN <<>>
    ELSE IF Len(segs) = 1 THEN segs[1]
    ELSE segs[1] \o <<"/">> \o JoinSegs(Tail(segs))

DotDot == <<".", ".">>

RECURSIVE normalizeString(_, _, _)
normalizeString(segs, res, allowAboveRoot) ==
    IF segs = <<>> THEN res
    ELSE LET h == Head(segs)
             rest == Tail(segs)
         IN IF h = <<>> \/ h = <<".">> THEN normalizeString(rest, res, allowAboveRoot)
            ELSE IF h = DotDot
            THEN IF res # <<>> /\ res[Len(res)] # DotDot
                 THEN normalizeString(rest, SubSeq(res, 1, Len(res) - 1), allowAboveRoot)
                 ELSE IF allowAboveRoot
                 THEN normalizeString(rest, Append(res, h), allowAboveRoot)
                 ELSE normalizeString(rest, res, allowAboveRoot)
            ELSE normalizeString(rest, Append(res, h), allowAboveRoot)

\* path.normalize(p)
normalize(p) ==
    IF p = <<>> THEN <<".">>
    ELSE LET isAbsolute == p[1] = "/"
             trailing == p[Len(p)] = "/"
             body == JoinSegs(normalizeString(Split(p), <<>>, ~isAbsolute))
             dotted == IF body = <<>> /\ ~isAbsolute THEN <<".">> ELSE body
             slashed == IF body # <<>> /\ trailing THEN dotted \o <<"/">> ELSE dotted
         IN IF isAbsolute THEN <<"/">> \o slashed ELSE slashed

RECURSIVE JoinArgs(_)
JoinArgs(parts) ==
    IF parts = <<>> THEN <<>>
    ELSE LET rest == JoinArgs(Tail(parts))
         IN IF Head(parts) = <<>> THEN rest
            ELSE IF rest = <<>> THEN Head(parts)
            ELSE Head(parts) \o <<"/">> \o rest

\* path.join(...parts)
pathJoin(parts) ==
    LET joined == JoinArgs(parts)
    IN IF joined = <<>> THEN <<".">> ELSE normalize(joined)

RECURSIVE StripTrailingSlashes(_)
StripTrailingSlashes(p) ==
    IF p # <<>> /\ p[Len(p)] = "/" THEN StripTrailingSlashes(SubSeq(p, 1, Len(p) - 1))
    ELSE p

\* path.basename(p)
basename(p) ==
    LET segs == Split(StripTrailingSlashes(p))
    IN segs[Len(segs)]

\* s.includes(c)
Includes(s, c) == \E i \in 1..Len(s) : s[i] = c

RECURSIVE RemoveFirstSlashStar(_)
RemoveFirstSlashStar(s) ==
    IF Len(s) < 2 THEN s
    ELSE IF s[1] = "/" /\ s[2] = "*" THEN SubSeq(s, 3, Len(s))
    ELSE <<s[1]>> \o RemoveFirstSlashStar(Tail(s))

(***************************************************************************)
(* The inspected tree.  fs.dirs maps a directory to its listing (a         *)
(* sequence of entries in directory-listing order), fs.files maps a file   *)
(* to its content.  Both are keyed by the path below the project root, in  *)
(* normal form; the root itself is <<>>.                                   *)
(***************************************************************************)
ProjectPath == <<"/", "home", "/", "proj">>

\* The place path.join(projectPath, ...parts) names, as a key of fs.
Resolve(parts) == JoinSegs(normalizeString(Split(JoinArgs(parts)), <<>>, TRUE))

\* await fs.access(path) succeeds
Exists(f, key) == key \in DOMAIN f.files \/ key \in DOMAIN f.dirs

\* JSON.parse(await fs.readFile(path, 'utf-8'))
ReadJson(f, key) ==
    IF key \in DOMAIN f.files /\ f.files[key].t = "obj" THEN f.files[key] ELSE Throw

PackageJson == <<"package.json">>

\* x.k for a parsed object x: undefined when the object has no such member
Get(x, k) == IF k \in DOMAIN x THEN x[k] ELSE Undefined

\* The names of x.k that carry a version range; none when x has no member k.
DepNames(x, k) == IF k \in DOMAIN x THEN x[k] ELSE {}

\* { ...x.dependencies, ...x.devDependencies }
MergeDeps(x) == DepNames(x, "dependencies") \cup DepNames(x, "devDependencies")

(***************************************************************************)
(* detectFramework                                                         *)
(***************************************************************************)
\* The ordering of an older build: react is tested before next.
detectFrameworkReactFirst(deps) ==
    IF "react" \in deps THEN "React"
    ELSE IF "vue" \in deps THEN "Vue.js"
    ELSE IF "@angular/core" \in deps THEN "Angular"
    ELSE IF "svelte" \in deps THEN "Svelte"
    ELSE IF "next" \in deps THEN "Next.js"
    ELSE "Unknown"

detectFramework(deps) ==
    IF "next" \in deps THEN "Next.js"
    ELSE IF "nuxt" \in deps THEN "Nuxt.js"
    ELSE IF "gatsby" \in deps THEN "Gatsby"
    ELSE IF "react" \in deps THEN "React"
    ELSE IF "vue" \in deps THEN "Vue.js"
    ELSE IF "@angular/core" \in deps THEN "Angular"
    ELSE IF "svelte" \in deps THEN "Svelte"
    ELSE IF "express" \in deps THEN "Express.js"
    ELSE IF "fastify" \in deps THEN "Fastify"
    ELSE IF "@nestjs/core" \in deps THEN "NestJS"
    ELSE IF "solid" \in deps THEN "Solid.js"
    ELSE IF "astro" \in deps THEN "Astro"
    ELSE "Unknown"

\* !!(deps?.typescript || deps?.['@types/node'])
DepsTypeScript(deps) == "typescript" \in deps \/ "@types/node" \in deps

(***************************************************************************)
(* expandWorkspaceGlob and analyzeWorkspaces                               *)
(***************************************************************************)
RECURSIVE SelectDirs(_)
SelectDirs(entries) ==
    IF entries = <<>> THEN <<>>
    ELSE IF Head(entries).isDir THEN <<Head(entries)>> \o SelectDirs(Tail(entries))
    ELSE SelectDirs(Tail(entries))

\* The expansion without the isDirectory() filter.
expandWorkspaceGlobNoFilter(f, glob) ==
    IF glob.t # "str" THEN <<>>
    ELSE IF Includes(glob.v, "*")
    THEN LET baseDir == RemoveFirstSlashStar(glob.v)
             basePath == Resolve(<<baseDir>>)
         IN IF basePath \in DOMAIN f.dirs
            THEN [i \in 1..Len(f.dirs[basePath]) |->
                     pathJoin(<<baseDir, f.dirs[basePath][i].name>>)]
            ELSE <<>>
    ELSE <<glob.v>>

\* glob is the JavaScript value handed in; glob.includes throws on a value that is
\* no string, and the outer catch returns [].
expandWorkspaceGlob(f, glob) ==
    IF glob.t # "str" THEN <<>>
    ELSE IF Includes(glob.v, "*")
    THEN LET baseDir == RemoveFirstSlashStar(glob.v)
             basePath == Resolve(<<baseDir>>)
         IN IF basePath \in DOMAIN f.dirs
            THEN LET entries == SelectDirs(f.dirs[basePath])
                 IN [i \in 1..Len(entries) |-> pathJoin(<<baseDir, entries[i].name>>)]
            ELSE <<>>
    ELSE <<glob.v>>

\* A descriptor is pushed for every expanded path: a missing or unparseable manifest
\* counts as an empty one, the way analyzeNxProjects treats it.
WorkspaceDescriptorAlways(f, workspacePath) ==
    LET packageJsonPath == Resolve(<<workspacePath, PackageJson>>)
        packageJson == IF Exists(f, packageJsonPath) THEN ReadJson(f, packageJsonPath)
                       ELSE Throw
        packageInfo == IF packageJson = Throw THEN [t |-> "obj"] ELSE packageJson
        deps == MergeDeps(packageInfo)
    IN << [name |-> OrElse(Get(packageInfo, "name"), Str(basename(workspacePath))),
           relativePath |-> workspacePath,
           framework |-> detectFramework(deps),
           hasTypeScript |-> DepsTypeScript(deps),
           version |-> Get(packageInfo, "version")] >>

\* The descriptor analyzeWorkspaces pushes for one expanded path, <<>> when it skips it.
WorkspaceDescriptor(f, workspacePath) ==
    LET packageJsonPath == Resolve(<<workspacePath, PackageJson>>)
        packageJson == IF Exists(f, packageJsonPath) THEN ReadJson(f, packageJsonPath)
                       ELSE Throw
    IN IF packageJson = Throw THEN <<>>
       ELSE LET deps == MergeDeps(packageJson)
            IN << [name |-> OrElse(Get(packageJson, "name"), Str(basename(workspacePath))),
                   relativePath |-> workspacePath,
                   framework |-> detectFramework(deps),
                   hasTypeScript |-> DepsTypeScript(deps),
                   version |-> Get(packageJson, "version")] >>

RECURSIVE DescribeAll(_, _)
DescribeAll(f, paths) ==
    IF paths = <<>> THEN <<>>
    ELSE WorkspaceDescriptor(f, Head(paths)) \o DescribeAll(f, Tail(paths))

RECURSIVE AnalyzeEach(_, _)
AnalyzeEach(f, workspaces) ==
    IF workspaces = <<>> THEN <<>>
    ELSE DescribeAll(f, expandWorkspaceGlob(f, Head(workspaces)))
             \o AnalyzeEach(f, Tail(workspaces))

\* workspaces is the JavaScript value handed in; a value that is not iterable throws.
analyzeWorkspaces(f, workspaces) ==
    IF Iterable(workspaces) THEN Arr(AnalyzeEach(f, workspaces.v)) ELSE Throw

(***************************************************************************)
(* detectPackageManager and the lockfile helpers                           *)
(***************************************************************************)
YarnLock == <<"yarn.lock">>
PnpmLock == <<"pnpm-lock.yaml">>
NpmLock == <<"package-lock.json">>

\* package-lock.json is tested before pnpm-lock.yaml.
detectPackageManagerNpmFirst(f) ==
    IF Exists(f, Resolve(<<YarnLock>>)) THEN "Yarn"
    ELSE IF Exists(f, Resolve(<<NpmLock>>)) THEN "npm"
    ELSE IF Exists(f, Resolve(<<PnpmLock>>)) THEN "pnpm"
    ELSE "Unknown"

detectPackageManager(f) ==
    IF Exists(f, Resolve(<<YarnLock>>)) THEN "Yarn"
    ELSE IF Exists(f, Resolve(<<PnpmLock>>)) THEN "pnpm"
    ELSE IF Exists(f, Resolve(<<NpmLock>>)) THEN "npm"
    ELSE "Unknown"

\* fs.access is not awaited: its rejection is never seen and the test always succeeds.
checkYarnLockNotAwaited(f) == TRUE

checkYarnLock(f) == Exists(f, Resolve(<<YarnLock>>))

checkNpmLock(f) == Exists(f, Resolve(<<NpmLock>>))

(***************************************************************************)
(* The convention detectors                                                *)
(***************************************************************************)
DefaultLernaPackages == Arr(<<Str(<<"packages", "/", "*">>)>>)

checkLernaConfig(f) ==
    LET lernaJsonPath == Resolve(<<<<"lerna.json">>>>)
        lernaConfig == IF Exists(f, lernaJsonPath) THEN ReadJson(f, lernaJsonPath) ELSE Throw
    IN IF lernaConfig = Throw THEN [isLerna |-> FALSE, packages |-> Arr(<<>>)]
       ELSE [isLerna |-> TRUE,
             packages |-> OrElse(Get(lernaConfig, "packages"), DefaultLernaPackages)]

\* Array.isArray(w) ? w : w.packages || []
WorkspacesOf(w) ==
    IF w.t = "arr" THEN w ELSE OrElse(Get(w, "packages"), Arr(<<>>))

\* The yarn.lock test is dropped.
checkYarnWorkspacesNoLock(f) ==
    LET packageJson == ReadJson(f, Resolve(<<PackageJson>>))
    IN IF packageJson = Throw THEN [isYarnWorkspace |-> FALSE, workspaces |-> Arr(<<>>)]
       ELSE IF Truthy(Get(packageJson, "workspaces"))
       THEN [isYarnWorkspace |-> TRUE,
             workspaces |-> WorkspacesOf(Get(packageJson, "workspaces"))]
       ELSE [isYarnWorkspace |-> FALSE, workspaces |-> Arr(<<>>)]

checkYarnWorkspaces(f) ==
    LET packageJson == ReadJson(f, Resolve(<<PackageJson>>))
        hasYarnLock == checkYarnLock(f)
    IN IF packageJson = Throw THEN [isYarnWorkspace |-> FALSE, workspaces |-> Arr(<<>>)]
       ELSE IF Truthy(Get(packageJson, "workspaces")) /\ hasYarnLock
       THEN [isYarnWorkspace |-> TRUE,
             workspaces |-> WorkspacesOf(Get(packageJson, "workspaces"))]
       ELSE [isYarnWorkspace |-> FALSE, workspaces |-> Arr(<<>>)]

\* The yarn.lock test is dropped.
checkNpmWorkspacesIgnoreYarn(f) ==
    LET packageJson == ReadJson(f, Resolve(<<PackageJson>>))
        hasNpmLock == checkNpmLock(f)
    IN IF packageJson = Throw THEN [isNpmWorkspace |-> FALSE, workspaces |-> Arr(<<>>)]
       ELSE IF Truthy(Get(packageJson, "workspaces")) /\ hasNpmLock
       THEN [isNpmWorkspace |-> TRUE,
             workspaces |-> WorkspacesOf(Get(packageJson, "workspaces"))]
       ELSE [isNpmWorkspace |-> FALSE, workspaces |-> Arr(<<>>)]

checkNpmWorkspaces(f) ==
    LET packageJson == ReadJson(f, Resolve(<<PackageJson>>))
        hasYarnLock == checkYarnLock(f)
        hasNpmLock == checkNpmLock(f)
    IN IF packageJson = Throw THEN [isNpmWorkspace |-> FALSE, workspaces |-> Arr(<<>>)]
       ELSE IF Truthy(Get(packageJson, "workspaces")) /\ ~hasYarnLock /\ hasNpmLock
       THEN [isNpmWorkspace |-> TRUE,
             workspaces |-> WorkspacesOf(Get(packageJson, "workspaces"))]
       ELSE [isNpmWorkspace |-> FALSE, workspaces |-> Arr(<<>>)]

(***************************************************************************)
(* pnpm-workspace.yaml is a sequence of lines, each ended by a newline:    *)
(* "packages:" (the key alone on its line), "item" (a line "- text") or    *)
(* "other".                                                                *)
(***************************************************************************)
\* s.replace(/['"]/g, '')
StripQuotes(s) == SelectSeq(s, LAMBDA c : c # "'" /\ c # "\"")

\* The index of the first "packages:" line, 0 when there is none.
PackagesLine(lines) ==
    IF \E i \in 1..Len(lines) : lines[i].kind = "packages:"
    THEN CHOOSE i \in 1..Len(lines) :
             /\ lines[i].kind = "packages:"
             /\ \A j \in 1..(i - 1) : lines[j].kind # "packages:"
    ELSE 0

RECURSIVE ItemRun(_, _)
ItemRun(lines, i) ==
    IF i <= Len(lines) /\ lines[i].kind = "item"
    THEN <<Str(StripQuotes(lines[i].text))>> \o ItemRun(lines, i + 1)
    ELSE <<>>

checkPnpmWorkspaces(f) ==
    LET pnpmWorkspaceYamlPath == Resolve(<<<<"pnpm-workspace.yaml">>>>)
    IN IF ~(pnpmWorkspaceYamlPath \in DOMAIN f.files)
       THEN [isPnpmWorkspace |-> FALSE, workspaces |-> Arr(<<>>)]
       ELSE LET lines == f.files[pnpmWorkspaceYamlPath].lines
                h == PackagesLine(lines)
            IN IF h > 0
               THEN [isPnpmWorkspace |-> TRUE, workspaces |-> Arr(ItemRun(lines, h + 1))]
               ELSE [isPnpmWorkspace |-> FALSE, workspaces |-> Arr(<<>>)]

\* `${prefix}/${d.name}` for the entries of one directory that are directories
ListUnder(f, prefix) ==
    IF Resolve(<<prefix>>) \in DOMAIN f.dirs
    THEN LET entries == SelectDirs(f.dirs[Resolve(<<prefix>>)])
         IN [i \in 1..Len(entries) |-> Str(prefix \o <<"/">> \o entries[i].name)]
    ELSE <<>>

\* Object.values(x)
ObjectValues(x) == IF "v" \in DOMAIN x THEN x.v ELSE <<>>

\* x.k throws a TypeError
MemberThrows(x) == x.t \in {"undefined", "null"}

\* The fallback listing is used only when workspace.json does not exist; a
\* workspace.json that cannot be read as projects leaves the declarations empty.
checkNxConfigFallbackWhenMissing(f) ==
    IF ~Exists(f, Resolve(<<<<"nx.json">>>>)) THEN [isNx |-> FALSE, projects |-> Arr(<<>>)]
    ELSE LET workspaceJsonPath == Resolve(<<<<"workspace.json">>>>)
             workspaceConfig == IF Exists(f, workspaceJsonPath)
                                THEN ReadJson(f, workspaceJsonPath) ELSE Throw
             values == IF workspaceConfig = Throw THEN <<>>
                       ELSE ObjectValues(OrElse(Get(workspaceConfig, "projects"),
                                                [t |-> "obj", v |-> <<>>]))
         IN IF ~Exists(f, workspaceJsonPath)
            THEN [isNx |-> TRUE,
                  projects |-> Arr(ListUnder(f, <<"apps">>) \o ListUnder(f, <<"libs">>))]
            ELSE IF workspaceConfig # Throw
                    /\ \A i \in 1..Len(values) : ~MemberThrows(values[i])
            THEN [isNx |-> TRUE,
                  projects |-> Arr([i \in 1..Len(values) |-> Get(values[i], "root")])]
            ELSE [isNx |-> TRUE, projects |-> Arr(<<>>)]

checkNxConfig(f) ==
    IF ~Exists(f, Resolve(<<<<"nx.json">>>>)) THEN [isNx |-> FALSE, projects |-> Arr(<<>>)]
    ELSE LET workspaceJsonPath == Resolve(<<<<"workspace.json">>>>)
             workspaceConfig == IF Exists(f, workspaceJsonPath)
                                THEN ReadJson(f, workspaceJsonPath) ELSE Throw
             values == IF workspaceConfig = Throw THEN <<>>
                       ELSE ObjectValues(OrElse(Get(workspaceConfig, "projects"),
                                                [t |-> "obj", v |-> <<>>]))
         IN IF workspaceConfig # Throw /\ \A i \in 1..Len(values) : ~MemberThrows(values[i])
            THEN [isNx |-> TRUE,
                  projects |-> Arr([i \in 1..Len(values) |-> Get(values[i], "root")])]
            ELSE [isNx |-> TRUE,
                  projects |-> Arr(ListUnder(f, <<"apps">>) \o ListUnder(f, <<"libs">>))]

checkRushConfig(f) ==
    LET rushJsonPath == Resolve(<<<<"rush.json">>>>)
        rushConfig == IF Exists(f, rushJsonPath) THEN ReadJson(f, rushJsonPath) ELSE Throw
    IN IF rushConfig = Throw THEN [isRush |-> FALSE, projects |-> Arr(<<>>)]
       ELSE LET projects == Get(rushConfig, "projects")
            IN IF projects.t = "undefined" THEN [isRush |-> TRUE, projects |-> Arr(<<>>)]
               ELSE IF projects.t = "arr"
               THEN [isRush |-> TRUE,
                     projects |-> Arr([i \in 1..Len(projects.v) |->
                                          Get(projects.v[i], "projectFolder")])]
               ELSE [isRush |-> FALSE, projects |-> Arr(<<>>)]

(***************************************************************************)
(* analyzeNxProjects                                                       *)
(***************************************************************************)
\* The descriptor analyzeNxProjects pushes for one project, <<>> when path.join throws.
NxDescriptor(f, projectPath) ==
    IF projectPath.t # "str" THEN <<>>
    ELSE LET dir == projectPath.v
             packageJsonPath == Resolve(<<dir, PackageJson>>)
             projectJsonPath == Resolve(<<dir, <<"project.json">>>>)
             projectJson == IF Exists(f, projectJsonPath) THEN ReadJson(f, projectJsonPath)
                            ELSE Throw
             packageJson == IF Exists(f, packageJsonPath) THEN ReadJson(f, packageJsonPath)
                            ELSE Throw
             name0 == Str(basename(dir))
             name1 == IF projectJson = Throw THEN name0
                      ELSE OrElse(Get(projectJson, "name"), name0)
             name2 == IF packageJson = Throw THEN name1
                      ELSE OrElse(Get(packageJson, "name"), name1)
             projectInfo == IF packageJson = Throw THEN [t |-> "obj"] ELSE packageJson
             deps == MergeDeps(projectInfo)
         IN << [name |-> name2,
                relativePath |-> dir,
                framework |-> detectFramework(deps),
                hasTypeScript |-> DepsTypeScript(deps),
                version |-> Get(projectInfo, "version")] >>

RECURSIVE AnalyzeNxEach(_, _)
AnalyzeNxEach(f, projects) ==
    IF projects = <<>> THEN <<>>
    ELSE NxDescriptor(f, Head(projects)) \o AnalyzeNxEach(f, Tail(projects))

analyzeNxProjects(f, projects) ==
    IF Iterable(projects) THEN Arr(AnalyzeNxEach(f, projects.v)) ELSE Throw

(***************************************************************************)
(* detectMonorepoType                                                      *)
(***************************************************************************)
NoMonorepo(packageManager) ==
    [isMonorepo |-> FALSE, tool |-> "None", packageManager |-> packageManager,
     workspaces |-> Arr(<<>>), subProjects |-> Arr(<<>>)]

\* The result of a detector that claimed the tree; an analysis that throws propagates.
Claimed(tool, packageManager, workspaces, subProjects) ==
    IF subProjects = Throw THEN Throw
    ELSE [isMonorepo |-> TRUE, tool |-> tool, packageManager |-> packageManager,
          workspaces |-> workspaces, subProjects |-> subProjects]

\* Nx is consulted before Lerna.
detectMonorepoTypeNxFirst(f) ==
    LET packageManager == detectPackageManager(f)
        lernaConfig == checkLernaConfig(f)
        yarnWorkspaces == checkYarnWorkspaces(f)
        npmWorkspaces == checkNpmWorkspaces(f)
        pnpmWorkspaces == checkPnpmWorkspaces(f)
        nxConfig == checkNxConfig(f)
        rushConfig == checkRushConfig(f)
    IN IF nxConfig.isNx
       THEN Claimed("Nx", packageManager, nxConfig.projects,
                    analyzeNxProjects(f, nxConfig.projects))
       ELSE IF lernaConfig.isLerna
       THEN Claimed("Lerna", packageManager, lernaConfig.packages,
                    analyzeWorkspaces(f, lernaConfig.packages))
       ELSE IF yarnWorkspaces.isYarnWorkspace
       THEN Claimed("Yarn Workspaces", packageManager, yarnWorkspaces.workspaces,
                    analyzeWorkspaces(f, yarnWorkspaces.workspaces))
       ELSE IF npmWorkspaces.isNpmWorkspace
       THEN Claimed("npm Workspaces", packageManager, npmWorkspaces.workspaces,
                    analyzeWorkspaces(f, npmWorkspaces.workspaces))
       ELSE IF pnpmWorkspaces.isPnpmWorkspace
       THEN Claimed("pnpm Workspaces", packageManager, pnpmWorkspaces.workspaces,
                    analyzeWorkspaces(f, pnpmWorkspaces.workspaces))
       ELSE IF rushConfig.isRush
       THEN Claimed("Rush", packageManager, rushConfig.projects,
                    analyzeWorkspaces(f, rushConfig.projects))
       ELSE NoMonorepo(packageManager)

detectMonorepoType(f) ==
    LET packageManager == detectPackageManager(f)
        lernaConfig == checkLernaConfig(f)
        yarnWorkspaces == checkYarnWorkspaces(f)
        npmWorkspaces == checkNpmWorkspaces(f)
        pnpmWorkspaces == checkPnpmWorkspaces(f)
        nxConfig == checkNxConfig(f)
        rushConfig == checkRushConfig(f)
    IN IF lernaConfig.isLerna
       THEN Claimed("Lerna", packageManager, lernaConfig.packages,
                    analyzeWorkspaces(f, lernaConfig.packages))
       ELSE IF yarnWorkspaces.isYarnWorkspace
       THEN Claimed("Yarn Workspaces", packageManager, yarnWorkspaces.workspaces,
                    analyzeWorkspaces(f, yarnWorkspaces.workspaces))
       ELSE IF npmWorkspaces.isNpmWorkspace
       THEN Claimed("npm Workspaces", packageManager, npmWorkspaces.workspaces,
                    analyzeWorkspaces(f, npmWorkspaces.workspaces))
       ELSE IF pnpmWorkspaces.isPnpmWorkspace
       THEN Claimed("pnpm Workspaces", packageManager, pnpmWorkspaces.workspaces,
                    analyzeWorkspaces(f, pnpmWorkspaces.workspaces))
       ELSE IF nxConfig.isNx
       THEN Claimed("Nx", packageManager, nxConfig.projects,
                    analyzeNxProjects(f, nxConfig.projects))
       ELSE IF rushConfig.isRush
       THEN Claimed("Rush", packageManager, rushConfig.projects,
                    analyzeWorkspaces(f, rushConfig.projects))
       ELSE NoMonorepo(packageManager)

(***************************************************************************)
(* getProjectInfo.  The rendered text is kept as the record of the values  *)
(* the template interpolates, line by line.                                *)
(***************************************************************************)
MaxListed == 10

checkTypeScriptConfig(f) == Exists(f, Resolve(<<<<"tsconfig.json">>>>))

\* The sub-project lines: the first MaxListed descriptors, and the count of the rest.
SubProjectLines(subProjects) ==
    [shown |-> [i \in 1..(IF Len(subProjects) < MaxListed THEN Len(subProjects)
                          ELSE MaxListed) |->
                   [name |-> subProjects[i].name,
                    framework |-> subProjects[i].framework,
                    relativePath |-> subProjects[i].relativePath]],
     more |-> IF Len(subProjects) > MaxListed THEN Len(subProjects) - MaxListed ELSE 0]

TextBlock(text) == [content |-> << [type |-> "text", text |-> text] >>]

ErrorLine == [kind |-> "error"]

\* hasPackageJson = true is set before the access test.
HasPackageJsonSetFirst(f) == TRUE

\* fs.access(packageJsonPath) succeeded, so hasPackageJson = true was reached.
HasPackageJson(f) == Exists(f, Resolve(<<PackageJson>>))

\* The body of getProjectInfo's try block after the call of detectMonorepoType
\* returned monorepoInfo or threw: the report, or Throw.
ProjectReportOf(f, monorepoInfo) ==
    LET packageJsonPath == Resolve(<<PackageJson>>)
        hasPackageJson == HasPackageJson(f)
        packageJson == IF Exists(f, packageJsonPath) THEN ReadJson(f, packageJsonPath)
                       ELSE Throw
        projectName == IF packageJson = Throw THEN Str(basename(ProjectPath))
                       ELSE OrElse(Get(packageJson, "name"), Str(basename(ProjectPath)))
        packageInfo == IF packageJson = Throw THEN [t |-> "obj"] ELSE packageJson
        deps == MergeDeps(packageInfo)
        framework == detectFramework(deps)
        hasTypeScript == DepsTypeScript(deps) \/ checkTypeScriptConfig(f)
    IN IF monorepoInfo = Throw THEN Throw
       ELSE [kind |-> "report",
             name |-> projectName,
             path |-> ProjectPath,
             type |-> IF monorepoInfo.isMonorepo THEN "Monorepo" ELSE "Single Package",
             tool |-> monorepoInfo.tool,
             packageManager |-> monorepoInfo.packageManager,
             framework |-> framework,
             typeScript |-> hasTypeScript,
             hasPackageJson |-> hasPackageJson,
             workspaces |-> IF monorepoInfo.isMonorepo
                            THEN Len(monorepoInfo.workspaces.v) ELSE 0,
             subProjects |-> IF monorepoInfo.isMonorepo
                             THEN SubProjectLines(monorepoInfo.subProjects.v)
                             ELSE SubProjectLines(<<>>)]

\* The body of getProjectInfo's try block: the report, or Throw.
ProjectReport(f) == ProjectReportOf(f, detectMonorepoType(f))

\* The outer catch is missing: a failure of the body leaves the function.
getProjectInfoNoCatch(f) ==
    LET report == ProjectReport(f)
    IN IF report = Throw THEN Throw ELSE TextBlock(report)

getProjectInfo(f) ==
    LET report == ProjectReport(f)
    IN IF report = Throw THEN TextBlock(ErrorLine) ELSE TextBlock(report)

(***************************************************************************)
(* Trees.  A tree is built from the files and the directories it holds.    *)
(***************************************************************************)
Entry(n, d) == [name |-> n, isDir |-> d]

Raw == [t |-> "raw"]
Absent == [t |-> "absent"]

\* The files map of one optional file: nothing when the content is Absent.
File(key, content) == IF content = Absent THEN <<>> ELSE key :> content

Manifest(name, deps, devDeps) ==
    [t |-> "obj", name |-> name, dependencies |-> deps, devDependencies |-> devDeps]

Packages == <<"packages">>
Under(dir, n) == dir \o <<"/">> \o n

NameA == <<"a">>
NameB == <<"b">>
NameD == <<"d">>
Readme == <<"README.md">>

(***************************************************************************)
(* The trees of the resolver: packages/ lists up to MaxEntries of the      *)
(* directories a and b and the file README.md, in any order; a and b hold  *)
(* a manifest, a broken one or none; a may hold a directory d of its own.  *)
(***************************************************************************)
EntryPool == {Entry(NameA, TRUE), Entry(NameB, TRUE), Entry(Readme, FALSE)}

Listings ==
    {l \in UNION {[1..n -> EntryPool] : n \in 0..MaxEntries} :
        \A i, j \in 1..Len(l) : i # j => l[i] # l[j]}

SubManifests ==
    {Absent, Raw,
     Manifest(Str(<<"pkg-a">>), {"react"}, {}) @@ [version |-> Str(<<"1.0.0">>)],
     [t |-> "obj", devDependencies |-> {"next", "react", "typescript"}]}

Lists(l, n) == \E i \in 1..Len(l) : l[i].name = n

ResolverTree(l, ma, mb, nested) ==
    [dirs |-> (<<>> :> <<Entry(Packages, TRUE)>>)
              @@ (Packages :> l)
              @@ (IF Lists(l, NameA)
                  THEN Under(Packages, NameA) :>
                           (IF nested THEN <<Entry(NameD, TRUE)>> ELSE <<>>)
                  ELSE <<>>)
              @@ (IF Lists(l, NameA) /\ nested
                  THEN Under(Under(Packages, NameA), NameD) :> <<>> ELSE <<>>)
              @@ (IF Lists(l, NameB) THEN Under(Packages, NameB) :> <<>> ELSE <<>>),
     files |-> (IF Lists(l, NameA)
                THEN File(Under(Under(Packages, NameA), PackageJson), ma) ELSE <<>>)
               @@ (IF Lists(l, NameA) /\ nested
                   THEN File(Under(Under(Under(Packages, NameA), NameD), PackageJson),
                             Manifest(Str(<<"pkg-d">>), {"vue"}, {}))
                   ELSE <<>>)
               @@ (IF Lists(l, NameB)
                   THEN File(Under(Under(Packages, NameB), PackageJson), mb) ELSE <<>>)]

ResolverTrees ==
    {ResolverTree(l, ma, mb, nested) :
        l \in Listings, ma \in SubManifests, mb \in SubManifests, nested \in BOOLEAN}

(***************************************************************************)
(* The declarations handed to the resolver.                                *)
(***************************************************************************)
GlobPackages == Str(<<"packages", "/", "*">>)
GlobDotPackages == Str(<<".", "/", "packages", "/", "*">>)
GlobMissing == Str(<<"missing", "/", "*">>)
GlobMiddle == Str(<<"packages", "/", "*", "/", "a">>)
GlobDouble == Str(<<"packages", "/", "*", "*">>)
LiteralA == Str(<<"packages", "/", "a">>)
LiteralDotB == Str(<<".", "/", "packages", "/", "b">>)

Globs == {GlobPackages, GlobDotPackages, GlobMissing, GlobMiddle, GlobDouble,
          LiteralA, LiteralDotB, Undefined}

Declarations == {GlobPackages, GlobDotPackages, GlobMissing, LiteralA, LiteralDotB}

DeclarationLists == UNION {[1..n -> Declarations] : n \in 0..MaxDecls}

(***************************************************************************)
(* The resolver on its own: a tree and an argument, then the call of       *)
(* expandWorkspaceGlob (on a glob) or analyzeWorkspaces (on a list of      *)
(* declarations).  Neither writes to the tree.                             *)
(***************************************************************************)
InitResolve ==
    /\ fs \in ResolverTrees
    /\ arg \in Globs \cup {Arr(w) : w \in DeclarationLists}
    /\ op = "none"
    /\ ret = Undefined
    /\ frame = Idle
    /\ snapshots = <<>>

ExpandWorkspaceGlob ==
    /\ arg.t # "arr"
    /\ op' = "expandWorkspaceGlob"
    /\ ret' = Arr(expandWorkspaceGlob(fs, arg))
    /\ UNCHANGED <<fs, arg, frame, snapshots>>

AnalyzeWorkspaces ==
    /\ arg.t = "arr"
    /\ op' = "analyzeWorkspaces"
    /\ ret' = analyzeWorkspaces(fs, arg)
    /\ UNCHANGED <<fs, arg, frame, snapshots>>

NextResolve == ExpandWorkspaceGlob \/ AnalyzeWorkspaces

SpecResolve == InitResolve /\ [][NextResolve]_vars

(***************************************************************************)
(* Claims about the resolver, checked under SpecResolve.                   *)
(***************************************************************************)
\* The glob has the one supported wildcard form <dir>/*, with no wildcard in <dir>.
IsDirStar(g) ==
    /\ Len(g) >= 2
    /\ g[Len(g) - 1] = "/"
    /\ g[Len(g)] = "*"
    /\ ~Includes(SubSeq(g, 1, Len(g) - 2), "*")

DirOf(g) == SubSeq(g, 1, Len(g) - 2)

\* The names of the entries of a listing that are directories, in listing order.
DirNames(l) ==
    LET dirs == SelectSeq(l, LAMBDA e : e.isDir)
    IN [i \in 1..Len(dirs) |-> dirs[i].name]

Expanded == op = "expandWorkspaceGlob" /\ arg.t = "str"

\* C6, as stated: a glob without a wildcard expands to itself, unchecked; a glob
\* <dir>/* expands to the strings <dir>/<entry>, one for each entry of <root>/<dir>
\* that is a directory, in listing order, and to nothing when <root>/<dir> cannot be
\* listed.
C6_ExpandLiteralConcat ==
    Expanded =>
        /\ ~Includes(arg.v, "*") => ret = Arr(<<arg.v>>)
        /\ IsDirStar(arg.v) =>
               LET dir == DirOf(arg.v)
                   key == Resolve(<<dir>>)
               IN IF key \in DOMAIN fs.dirs
                  THEN LET names == DirNames(fs.dirs[key])
                       IN ret = Arr([i \in 1..Len(names) |-> dir \o <<"/">> \o names[i]])
                  ELSE ret = Arr(<<>>)

\* C6, amended: as above, but each path of a <dir>/* expansion is
\* path.join(<dir>, <entry>), that is <dir>/<entry> in normal form (a "./" in front
\* of <dir> is dropped), while a glob without a wildcard is returned verbatim.
C6_ExpandNormalForm ==
    Expanded =>
        /\ ~Includes(arg.v, "*") => ret = Arr(<<arg.v>>)
        /\ IsDirStar(arg.v) =>
               LET dir == DirOf(arg.v)
                   key == Resolve(<<dir>>)
               IN IF key \in DOMAIN fs.dirs
                  THEN LET names == DirNames(fs.dirs[key])
                       IN ret = Arr([i \in 1..Len(names) |-> pathJoin(<<dir, names[i]>>)])
                  ELSE ret = Arr(<<>>)

\* ./packages/* was expanded over a listing that holds a file and a directory.
C6_Witness ==
    /\ Expanded
    /\ arg = GlobDotPackages
    /\ Packages \in DOMAIN fs.dirs
    /\ \E i, j \in 1..Len(fs.dirs[Packages]) :
           fs.dirs[Packages][i].isDir /\ ~fs.dirs[Packages][j].isDir
    /\ Len(ret.v) >= 1

\* C7: a glob of an unsupported shape (a wildcard that is not the single trailing
\* /* segment) expands to the one-element sequence holding the glob itself.
C7_UnsupportedIsLiteral ==
    (Expanded /\ Includes(arg.v, "*") /\ ~IsDirStar(arg.v)) => ret = Arr(<<arg.v>>)

\* The paths of all declarations, each expanded, in declaration order.
RECURSIVE ExpandAll(_, _)
ExpandAll(f, workspaces) ==
    IF workspaces = <<>> THEN <<>>
    ELSE expandWorkspaceGlob(f, Head(workspaces)) \o ExpandAll(f, Tail(workspaces))

\* The manifest of a directory exists and parses.
Readable(f, dir) ==
    LET key == Resolve(<<dir, PackageJson>>)
    IN key \in DOMAIN f.files /\ f.files[key].t = "obj"

ManifestOf(f, dir) == f.files[Resolve(<<dir, PackageJson>>)]

Analyzed == op = "analyzeWorkspaces" /\ arg.t = "arr"

\* C5: analyzeWorkspaces returns one descriptor for each expanded directory whose
\* package.json exists and parses and none for the others, in declaration order and
\* then expansion order; the name is the manifest's name, or the base name of the
\* directory when the manifest has no name.
C5_OneDescriptorPerReadableManifest ==
    Analyzed =>
        LET good == SelectSeq(ExpandAll(fs, arg.v), LAMBDA d : Readable(fs, d))
        IN /\ ret.t = "arr"
           /\ Len(ret.v) = Len(good)
           /\ \A i \in 1..Len(good) :
                  /\ ret.v[i].relativePath = good[i]
                  /\ ret.v[i].name =
                         IF "name" \in DOMAIN ManifestOf(fs, good[i])
                         THEN ManifestOf(fs, good[i]).name
                         ELSE Str(basename(good[i]))

\* Two declarations were analyzed; one expanded directory was skipped, two
\* descriptors were returned, and one of them is named after its directory.
C5_Witness ==
    /\ Analyzed
    /\ Len(arg.v) >= 2
    /\ \E i \in 1..Len(ExpandAll(fs, arg.v)) : ~Readable(fs, ExpandAll(fs, arg.v)[i])
    /\ \E i \in 1..Len(ret.v) : ret.v[i].name = Str(basename(ret.v[i].relativePath))
    /\ Len(ret.v) >= 2

(***************************************************************************)
(* The trees of the detectors: every combination of the root files below,  *)
(* over a root that holds either no directory or the directories          *)
(* packages/, apps/ and libs/ (and a tsconfig.json).                       *)
(***************************************************************************)
GlobApps == Str(<<"apps", "/", "*">>)
RootDeps == [dependencies |-> {"next", "react"}, devDependencies |-> {"typescript"}]
RootName == Str(<<"root-name">>)

RootManifests ==
    {Absent, Raw, [t |-> "obj"],
     [t |-> "obj", name |-> RootName] @@ RootDeps}
    \cup {[t |-> "obj", name |-> RootName, workspaces |-> w] @@ RootDeps :
            w \in {Arr(<<GlobApps>>),
                   [t |-> "obj", packages |-> Arr(<<GlobPackages, LiteralDotB>>)],
                   [t |-> "obj"],
                   [t |-> "obj", packages |-> Num],
                   Num}}

LernaConfigs ==
    {Absent, Raw, [t |-> "obj"],
     [t |-> "obj", packages |-> Arr(<<GlobApps, GlobPackages>>)],
     [t |-> "obj", packages |-> Num]}

YamlLine(kind, text) == [kind |-> kind, text |-> text]

PnpmYamls ==
    {Absent,
     [t |-> "yaml", lines |-> <<YamlLine("other", <<"shamefully-hoist: true">>)>>],
     [t |-> "yaml",
      lines |-> <<YamlLine("other", <<"# workspace">>),
                  YamlLine("packages:", <<"packages:">>),
                  YamlLine("item", <<"'", "packages", "/", "*", "'">>),
                  YamlLine("item", <<"\"", "apps", "/", "web", "\"">>),
                  YamlLine("other", <<"catalog:">>),
                  YamlLine("item", <<"libs", "/", "*">>)>>]}

WorkspaceJson ==
    [t |-> "obj",
     projects |-> [t |-> "obj",
                   v |-> <<[t |-> "obj", root |-> Str(<<"apps", "/", "web">>)],
                           Str(<<"libs", "/", "ui">>)>>]]

\* nx.json (present or not) and the workspace.json beside it
NxConfigs == {<<FALSE, Absent>>, <<TRUE, Absent>>, <<TRUE, WorkspaceJson>>}

RushConfigs ==
    {Absent,
     [t |-> "obj",
      projects |-> Arr(<<[t |-> "obj", projectFolder |-> Str(<<"packages", "/", "a">>)],
                         [t |-> "obj"]>>)],
     [t |-> "obj", projects |-> Num]}

Lock(present, key) == IF present THEN key :> Raw ELSE <<>>

Opt(present, entry) == IF present THEN <<entry>> ELSE <<>>

NameWeb == <<"web">>
NameUi == <<"ui">>
Apps == <<"apps">>
Libs == <<"libs">>

SubDirs ==
    (Packages :> <<Entry(NameA, TRUE), Entry(Readme, FALSE), Entry(NameB, TRUE)>>)
    @@ (Under(Packages, NameA) :> <<Entry(PackageJson, FALSE)>>)
    @@ (Under(Packages, NameB) :> <<>>)
    @@ (Apps :> <<Entry(NameWeb, TRUE)>>)
    @@ (Under(Apps, NameWeb) :> <<Entry(PackageJson, FALSE), Entry(<<"project.json">>, FALSE)>>)
    @@ (Libs :> <<Entry(NameUi, TRUE)>>)
    @@ (Under(Libs, NameUi) :> <<Entry(<<"project.json">>, FALSE)>>)

SubFiles ==
    (Under(Under(Packages, NameA), PackageJson) :>
         (Manifest(Str(<<"pkg-a">>), {"react"}, {}) @@ [version |-> Str(<<"1.0.0">>)]))
    @@ (Under(Packages, Readme) :> Raw)
    @@ (Under(Under(Apps, NameWeb), PackageJson) :> Manifest(Str(<<"web">>), {"vue"}, {}))
    @@ (Under(Under(Apps, NameWeb), <<"project.json">>) :>
            [t |-> "obj", name |-> Str(<<"web-app">>)])
    @@ (Under(Under(Libs, NameUi), <<"project.json">>) :>
            [t |-> "obj", name |-> Str(<<"ui-lib">>)])
    @@ (<<"tsconfig.json">> :> Raw)

RootTree(pkg, lerna, yarn, pnpm, npm, yaml, nx, workspaceJson, rush, full) ==
    LET files == File(PackageJson, pkg)
                 @@ File(<<"lerna.json">>, lerna)
                 @@ Lock(yarn, YarnLock) @@ Lock(pnpm, PnpmLock) @@ Lock(npm, NpmLock)
                 @@ File(<<"pnpm-workspace.yaml">>, yaml)
                 @@ Lock(nx, <<"nx.json">>)
                 @@ File(<<"workspace.json">>, workspaceJson)
                 @@ File(<<"rush.json">>, rush)
        listing == Opt(full, Entry(Packages, TRUE)) \o Opt(full, Entry(Apps, TRUE))
                   \o Opt(full, Entry(Libs, TRUE))
                   \o Opt(full, Entry(<<"tsconfig.json">>, FALSE))
                   \o Opt(pkg # Absent, Entry(PackageJson, FALSE))
                   \o Opt(lerna # Absent, Entry(<<"lerna.json">>, FALSE))
                   \o Opt(yarn, Entry(YarnLock, FALSE))
                   \o Opt(pnpm, Entry(PnpmLock, FALSE))
                   \o Opt(npm, Entry(NpmLock, FALSE))
                   \o Opt(yaml # Absent, Entry(<<"pnpm-workspace.yaml">>, FALSE))
                   \o Opt(nx, Entry(<<"nx.json">>, FALSE))
                   \o Opt(workspaceJson # Absent, Entry(<<"workspace.json">>, FALSE))
                   \o Opt(rush # Absent, Entry(<<"rush.json">>, FALSE))
    IN [dirs |-> (<<>> :> listing) @@ (IF full THEN SubDirs ELSE <<>>),
        files |-> files @@ (IF full THEN SubFiles ELSE <<>>)]

RootTrees ==
    {RootTree(pkg, lerna, yarn, pnpm, npm, yaml, nx[1], nx[2], rush, full) :
        pkg \in RootManifests, lerna \in LernaConfigs,
        yarn \in BOOLEAN, pnpm \in BOOLEAN, npm \in BOOLEAN,
        yaml \in PnpmYamls, nx \in NxConfigs, rush \in RushConfigs, full \in BOOLEAN}

(***************************************************************************)
(* The inspection of one tree: the calls a host can make, in any order and *)
(* any number of times.  None of them writes to the tree.                  *)
(***************************************************************************)
Init ==
    /\ fs \in RootTrees
    /\ arg = Str(ProjectPath)
    /\ op = "none"
    /\ ret = Undefined
    /\ frame = Idle
    /\ snapshots = <<>>

Call(name, result) ==
    /\ op' = name
    /\ ret' = result
    /\ UNCHANGED <<fs, arg, frame, snapshots>>

DetectPackageManager ==
    Call("detectPackageManager", Label(detectPackageManager(fs)))

CheckYarnWorkspaces == Call("checkYarnWorkspaces", checkYarnWorkspaces(fs))

CheckNpmWorkspaces == Call("checkNpmWorkspaces", checkNpmWorkspaces(fs))

DetectMonorepoType == Call("detectMonorepoType", detectMonorepoType(fs))

GetProjectInfo == Call("getProjectInfo", getProjectInfo(fs))

Next ==
    \/ DetectPackageManager
    \/ CheckYarnWorkspaces
    \/ CheckNpmWorkspaces
    \/ DetectMonorepoType
    \/ GetProjectInfo

Spec == Init /\ [][Next]_vars

(***************************************************************************)
(* detectFramework on its own: a dependency set, then the call.            *)
(***************************************************************************)
EmptyTree == [dirs |-> (<<>> :> <<>>), files |-> <<>>]

DependencyNames ==
    {"next", "nuxt", "gatsby", "react", "vue", "@angular/core", "svelte", "express",
     "fastify", "@nestjs/core", "solid", "astro", "lodash"}

InitFramework ==
    /\ fs = EmptyTree
    /\ arg \in {[t |-> "deps", v |-> d] : d \in SUBSET DependencyNames}
    /\ op = "none"
    /\ ret = Undefined
    /\ frame = Idle
    /\ snapshots = <<>>

DetectFramework ==
    /\ arg.t = "deps"
    /\ op' = "detectFramework"
    /\ ret' = Label(detectFramework(arg.v))
    /\ UNCHANGED <<fs, arg, frame, snapshots>>

NextFramework == DetectFramework

SpecFramework == InitFramework /\ [][NextFramework]_vars

(***************************************************************************)
(* Claims about detectFramework, checked under SpecFramework.              *)
(***************************************************************************)
FrameworkPriority ==
    << <<"next", "Next.js">>, <<"nuxt", "Nuxt.js">>, <<"gatsby", "Gatsby">>,
       <<"react", "React">>, <<"vue", "Vue.js">>, <<"@angular/core", "Angular">>,
       <<"svelte", "Svelte">>, <<"express", "Express.js">>, <<"fastify", "Fastify">>,
       <<"@nestjs/core", "NestJS">>, <<"solid", "Solid.js">>, <<"astro", "Astro">> >>

\* The least element of a non-empty set of numbers.
Least(S) == CHOOSE i \in S : \A j \in S : i <= j

\* C8: detectFramework returns the label of the first name of the priority order next,
\* nuxt, gatsby, react, vue, @angular/core, svelte, express, fastify, @nestjs/core,
\* solid, astro that the dependency set holds, and Unknown when it holds none.
C8_FirstFrameworkInPriorityOrder ==
    op = "detectFramework" =>
        LET present == {i \in 1..Len(FrameworkPriority) : FrameworkPriority[i][1] \in arg.v}
        IN IF present = {} THEN ret = Label("Unknown")
           ELSE ret = Label(FrameworkPriority[Least(present)][2])

\* A dependency set with next and react (and another framework) was classified Next.js.
C8_Witness ==
    /\ op = "detectFramework"
    /\ {"next", "react", "express"} \subseteq arg.v
    /\ ret = Label("Next.js")

(***************************************************************************)
(* Claims about the detectors and the report, checked under Spec.          *)
(***************************************************************************)
HasFile(f, name) == name \in DOMAIN f.files

\* The root manifest parses and has a workspaces member; WorkspacesField is its value.
HasWorkspacesField(f) ==
    /\ HasFile(f, PackageJson)
    /\ f.files[PackageJson].t = "obj"
    /\ "workspaces" \in DOMAIN f.files[PackageJson]

WorkspacesField(f) == f.files[PackageJson].workspaces

\* The six detectors in the order of the claim: the tool each stands for, whether it
\* claims the tree, and the declarations and sub-projects it would report.
ToolOrder ==
    <<"Lerna", "Yarn Workspaces", "npm Workspaces", "pnpm Workspaces", "Nx", "Rush">>

Claims(f, tool) ==
    CASE tool = "Lerna" -> checkLernaConfig(f).isLerna
      [] tool = "Yarn Workspaces" -> checkYarnWorkspaces(f).isYarnWorkspace
      [] tool = "npm Workspaces" -> checkNpmWorkspaces(f).isNpmWorkspace
      [] tool = "pnpm Workspaces" -> checkPnpmWorkspaces(f).isPnpmWorkspace
      [] tool = "Nx" -> checkNxConfig(f).isNx
      [] tool = "Rush" -> checkRushConfig(f).isRush

DeclarationsBy(f, tool) ==
    CASE tool = "Lerna" -> checkLernaConfig(f).packages
      [] tool = "Yarn Workspaces" -> checkYarnWorkspaces(f).workspaces
      [] tool = "npm Workspaces" -> checkNpmWorkspaces(f).workspaces
      [] tool = "pnpm Workspaces" -> checkPnpmWorkspaces(f).workspaces
      [] tool = "Nx" -> checkNxConfig(f).projects
      [] tool = "Rush" -> checkRushConfig(f).projects

SubProjectsBy(f, tool) ==
    IF tool = "Nx" THEN analyzeNxProjects(f, DeclarationsBy(f, tool))
    ELSE analyzeWorkspaces(f, DeclarationsBy(f, tool))

Claimants(f) == {i \in 1..Len(ToolOrder) : Claims(f, ToolOrder[i])}

\* C1: whenever some detector claims the tree, the tool, the workspaces and the
\* sub-projects that detectMonorepoType reports are those of the first claiming
\* detector in the order Lerna, Yarn Workspaces, npm Workspaces, pnpm Workspaces, Nx,
\* Rush (and the call throws only when that detector's analysis throws).
C1_FirstClaimingDetectorWins ==
    (op = "detectMonorepoType" /\ Claimants(fs) # {}) =>
        LET first == ToolOrder[Least(Claimants(fs))]
        IN IF SubProjectsBy(fs, first) = Throw THEN ret = Throw
           ELSE /\ ret # Throw
                /\ ret.isMonorepo
                /\ ret.tool = first
                /\ ret.workspaces = DeclarationsBy(fs, first)
                /\ ret.subProjects = SubProjectsBy(fs, first)

\* A tree with a lerna.json and an nx.json, both claiming, was reported as Lerna with
\* Lerna's sub-projects.
C1_Witness ==
    /\ op = "detectMonorepoType"
    /\ {1, 5} \subseteq Claimants(fs)
    /\ ret # Throw
    /\ ret.tool = "Lerna"
    /\ Len(ret.subProjects.v) >= 2

\* No convention marker: no lerna.json, no workspaces field with a matching lockfile
\* (yarn.lock or package-lock.json), no pnpm-workspace.yaml, no nx.json, no rush.json.
NoMarker(f) ==
    /\ ~HasFile(f, <<"lerna.json">>)
    /\ ~(HasWorkspacesField(f) /\ (HasFile(f, YarnLock) \/ HasFile(f, NpmLock)))
    /\ ~HasFile(f, <<"pnpm-workspace.yaml">>)
    /\ ~HasFile(f, <<"nx.json">>)
    /\ ~HasFile(f, <<"rush.json">>)

\* C2: on a tree without any convention marker detectMonorepoType returns
\* isMonorepo = false, tool = 'None', workspaces = [] and subProjects = [].
C2_NoMarkerNoMonorepo ==
    (op = "detectMonorepoType" /\ NoMarker(fs)) =>
        /\ ret # Throw
        /\ ret.isMonorepo = FALSE
        /\ ret.tool = "None"
        /\ ret.workspaces = Arr(<<>>)
        /\ ret.subProjects = Arr(<<>>)

\* A tree whose manifest declares workspaces, with a pnpm lockfile only and sub-project
\* directories on disk, was reported as no monorepo.
C2_Witness ==
    /\ op = "detectMonorepoType"
    /\ NoMarker(fs)
    /\ HasWorkspacesField(fs)
    /\ HasFile(fs, PnpmLock)
    /\ Packages \in DOMAIN fs.dirs
    /\ ret.tool = "None"

LockOrder == << <<YarnLock, "Yarn">>, <<PnpmLock, "pnpm">>, <<NpmLock, "npm">> >>

\* C3: detectPackageManager returns the label of the first lockfile present in the
\* order yarn.lock, pnpm-lock.yaml, package-lock.json, and Unknown when none is; a tree
\* with a yarn.lock is Yarn whatever else it holds.
C3_FirstLockfileWins ==
    op = "detectPackageManager" =>
        LET present == {i \in 1..Len(LockOrder) : HasFile(fs, LockOrder[i][1])}
        IN /\ IF present = {} THEN ret = Label("Unknown")
              ELSE ret = Label(LockOrder[Least(present)][2])
           /\ HasFile(fs, YarnLock) => ret = Label("Yarn")

\* A tree with a pnpm and an npm lockfile, and no yarn.lock, was classified pnpm.
C3_Witness ==
    /\ op = "detectPackageManager"
    /\ ~HasFile(fs, YarnLock)
    /\ HasFile(fs, PnpmLock)
    /\ HasFile(fs, NpmLock)
    /\ ret = Label("pnpm")

\* The raw declarations of a workspaces value: an array is taken as it is, of an object
\* its packages array.
DeclarationsFollow(w, declared) ==
    /\ w.t = "arr" => declared = w
    /\ (w.t = "obj" /\ "packages" \in DOMAIN w /\ w.packages.t = "arr") =>
           declared = w.packages

\* C4: the Yarn detector claims exactly when the root manifest has a workspaces field
\* and yarn.lock exists; the npm detector exactly when the manifest has a workspaces
\* field, package-lock.json exists and yarn.lock does not; the declarations are the
\* workspaces array, or its packages array when workspaces is an object.
C4_WorkspaceDetectorsByLockfile ==
    /\ op = "checkYarnWorkspaces" =>
           /\ ret.isYarnWorkspace <=> (HasWorkspacesField(fs) /\ HasFile(fs, YarnLock))
           /\ ret.isYarnWorkspace => DeclarationsFollow(WorkspacesField(fs), ret.workspaces)
    /\ op = "checkNpmWorkspaces" =>
           /\ ret.isNpmWorkspace <=>
                  (HasWorkspacesField(fs) /\ HasFile(fs, NpmLock) /\ ~HasFile(fs, YarnLock))
           /\ ret.isNpmWorkspace => DeclarationsFollow(WorkspacesField(fs), ret.workspaces)

\* The npm detector claimed a tree whose workspaces value is an object, and reports the
\* two declarations of its packages array.
C4_Witness ==
    /\ op = "checkNpmWorkspaces"
    /\ ret.isNpmWorkspace
    /\ WorkspacesField(fs).t = "obj"
    /\ ret.workspaces = Arr(<<GlobPackages, LiteralDotB>>)

\* The payload is one text block holding a report or the error line.
OneTextBlock(r) ==
    /\ r # Throw
    /\ DOMAIN r = {"content"}
    /\ Len(r.content) = 1
    /\ r.content[1].type = "text"
    /\ r.content[1].text.kind \in {"report", "error"}

\* C9: getProjectInfo never throws; whatever the tree holds (files missing,
\* unparseable, or values of unexpected shape) it returns exactly one text block, a
\* report or the error line.
C9_AlwaysOneTextBlock == op = "getProjectInfo" => OneTextBlock(ret)

\* A lerna.json whose packages value is a number made the analysis throw, and the call
\* returned the error line.
C9_Witness ==
    /\ op = "getProjectInfo"
    /\ HasFile(fs, <<"lerna.json">>)
    /\ fs.files[<<"lerna.json">>] = [t |-> "obj", packages |-> Num]
    /\ ret = TextBlock(ErrorLine)

\* The report of a tree without root manifest: named after the directory, no
\* package.json, framework Unknown.
ReportWithoutManifest(r) ==
    /\ OneTextBlock(r)
    /\ r.content[1].text.kind = "report"
    /\ r.content[1].text.name = Str(<<"proj">>)
    /\ r.content[1].text.hasPackageJson = FALSE
    /\ r.content[1].text.framework = "Unknown"

\* C10, as stated: without a root package.json getProjectInfo still returns the full
\* report, never the error line.
C10_MissingManifestAlwaysReport ==
    (op = "getProjectInfo" /\ ~HasFile(fs, PackageJson)) => ReportWithoutManifest(ret)

\* lerna.json parses and declares a packages value that cannot be iterated.
LernaPackagesNotIterable(f) ==
    /\ HasFile(f, <<"lerna.json">>)
    /\ f.files[<<"lerna.json">>].t = "obj"
    /\ "packages" \in DOMAIN f.files[<<"lerna.json">>]
    /\ f.files[<<"lerna.json">>].packages.t # "arr"

\* C10, amended: without a root package.json getProjectInfo throws nothing and returns
\* the full report (named after the directory, no package.json, framework Unknown),
\* unless the monorepo detection itself throws, here on a lerna.json whose packages
\* value is not iterable: then it returns the error line.
C10_MissingManifestReportUnlessDetectionThrows ==
    (op = "getProjectInfo" /\ ~HasFile(fs, PackageJson)) =>
        IF LernaPackagesNotIterable(fs) THEN ret = TextBlock(ErrorLine)
        ELSE ReportWithoutManifest(ret)

\* A tree without root manifest, claimed by Lerna's default declaration, was reported
\* in full with its sub-project.
C10_Witness ==
    /\ op = "getProjectInfo"
    /\ ~HasFile(fs, PackageJson)
    /\ ReportWithoutManifest(ret)
    /\ ret.content[1].text.tool = "Lerna"
    /\ Len(ret.content[1].text.subProjects.shown) = 1

(***************************************************************************)
(* The Nx detector and the Nx resolver on their own.  The root holds       *)
(* nx.json or not, a workspace.json (absent, unparseable, or one of four   *)
(* contents), apps/ with the directory web and a file, and libs/ with the  *)
(* directory ui; apps/web holds a project.json and a package.json, each    *)
(* absent, unparseable, without a name or with one; libs/ui holds a        *)
(* project.json only.                                                      *)
(***************************************************************************)
ProjectJson == <<"project.json">>
AppsWeb == Under(Apps, NameWeb)
LibsUi == Under(Libs, NameUi)

WorkspaceJsons ==
    {Absent, Raw, [t |-> "obj"], WorkspaceJson,
     [t |-> "obj",
      projects |-> [t |-> "obj",
                    v |-> <<[t |-> "obj", root |-> Str(LibsUi)], Null>>]]}

ProjectJsons == {Absent, Raw, [t |-> "obj"], [t |-> "obj", name |-> Str(<<"web-app">>)]}

NxManifests ==
    {Absent, Raw, [t |-> "obj", devDependencies |-> {"typescript"}],
     Manifest(Str(<<"web">>), {"vue"}, {})}

NxTree(nx, workspaceJson, projectJson, packageJson) ==
    [dirs |-> (<<>> :> (<<Entry(Apps, TRUE), Entry(Libs, TRUE)>>
                        \o Opt(nx, Entry(<<"nx.json">>, FALSE))
                        \o Opt(workspaceJson # Absent, Entry(<<"workspace.json">>, FALSE))))
              @@ (Apps :> <<Entry(Readme, FALSE), Entry(NameWeb, TRUE)>>)
              @@ (AppsWeb :> (Opt(projectJson # Absent, Entry(ProjectJson, FALSE))
                              \o Opt(packageJson # Absent, Entry(PackageJson, FALSE))))
              @@ (Libs :> <<Entry(NameUi, TRUE)>>)
              @@ (LibsUi :> <<Entry(ProjectJson, FALSE)>>),
     files |-> Lock(nx, <<"nx.json">>)
               @@ File(<<"workspace.json">>, workspaceJson)
               @@ (Under(Apps, Readme) :> Raw)
               @@ File(Under(AppsWeb, ProjectJson), projectJson)
               @@ File(Under(AppsWeb, PackageJson), packageJson)
               @@ (Under(LibsUi, ProjectJson) :> [t |-> "obj", name |-> Str(<<"ui-lib">>)])]

NxTrees ==
    {NxTree(nx, workspaceJson, projectJson, packageJson) :
        nx \in BOOLEAN, workspaceJson \in WorkspaceJsons,
        projectJson \in ProjectJsons, packageJson \in NxManifests}

\* The project lists handed to analyzeNxProjects: roots as checkNxConfig yields them.
NxProjectLists ==
    {Arr(<<Str(AppsWeb), Str(LibsUi)>>),
     Arr(<<Str(LibsUi), Undefined, Str(AppsWeb)>>),
     Arr(<<>>)}

InitNx ==
    /\ fs \in NxTrees
    /\ arg \in NxProjectLists
    /\ op = "none"
    /\ ret = Undefined
    /\ frame = Idle
    /\ snapshots = <<>>

CheckNxConfig ==
    /\ op' = "checkNxConfig"
    /\ ret' = checkNxConfig(fs)
    /\ UNCHANGED <<fs, arg, frame, snapshots>>

AnalyzeNxProjects ==
    /\ op' = "analyzeNxProjects"
    /\ ret' = analyzeNxProjects(fs, arg)
    /\ UNCHANGED <<fs, arg, frame, snapshots>>

NextNx == CheckNxConfig \/ AnalyzeNxProjects

SpecNx == InitNx /\ [][NextNx]_vars

(***************************************************************************)
(* Claims about the Nx resolver and the Nx detector, checked under SpecNx. *)
(***************************************************************************)
\* The name a file declares: Undefined when the file is absent, unparseable or
\* declares no name.
DeclaredName(f, dir, file) ==
    LET key == Resolve(<<dir, file>>)
    IN IF key \in DOMAIN f.files /\ f.files[key].t = "obj"
       THEN Get(f.files[key], "name") ELSE Undefined

\* C11: every descriptor of analyzeNxProjects carries the name declared in the
\* directory's project.json; if there is none, the name of its package.json; if
\* there is none either, the base name of the directory.
C11_ProjectJsonNameFirst ==
    op = "analyzeNxProjects" =>
        \A i \in 1..Len(ret.v) :
            LET dir == ret.v[i].relativePath
            IN ret.v[i].name =
                   OrElse(DeclaredName(fs, dir, ProjectJson),
                          OrElse(DeclaredName(fs, dir, PackageJson), Str(basename(dir))))

(***************************************************************************)
(* Claims about the sub-projects and the tool of detectMonorepoType,       *)
(* checked under Spec.                                                     *)
(***************************************************************************)
\* C12: under every tool, each descriptor of the reported subProjects belongs to a
\* directory that holds a package.json that exists and parses; a directory without
\* one yields no descriptor.
C12_DescriptorsHaveReadableManifest ==
    (op = "detectMonorepoType" /\ ret # Throw) =>
        \A i \in 1..Len(ret.subProjects.v) :
            Readable(fs, ret.subProjects.v[i].relativePath)

ListedProjects(f) ==
    LET key == <<"workspace.json">>
    IN IF key \in DOMAIN f.files /\ f.files[key].t = "obj"
          /\ "projects" \in DOMAIN f.files[key]
       THEN f.files[key].projects.v ELSE <<>>

ListedRoots(f) ==
    [i \in 1..Len(ListedProjects(f)) |->
        IF "root" \in DOMAIN ListedProjects(f)[i] THEN ListedProjects(f)[i].root
        ELSE Undefined]

\* The immediate subdirectories of apps/, then those of libs/.
FallbackListing(f) ==
    LET apps == DirNames(f.dirs[Apps])
        libs == DirNames(f.dirs[Libs])
    IN [i \in 1..Len(apps) |-> Str(Under(Apps, apps[i]))]
       \o [i \in 1..Len(libs) |-> Str(Under(Libs, libs[i]))]

NxChecked == op = "checkNxConfig"

\* C15, as stated: the Nx detector claims exactly when nx.json exists; if
\* workspace.json exists the declarations are the root fields of its projects, in
\* order; the listing of apps/ and libs/ is used only when workspace.json does not
\* exist.
C15_FallbackOnlyWhenMissing ==
    NxChecked =>
        /\ ret.isNx <=> <<"nx.json">> \in DOMAIN fs.files
        /\ ret.isNx =>
               IF <<"workspace.json">> \in DOMAIN fs.files
               THEN ret.projects = Arr(ListedRoots(fs))
               ELSE ret.projects = Arr(FallbackListing(fs))

\* workspace.json parses and none of the projects it lists is null.
ProjectsRead(f) ==
    /\ <<"workspace.json">> \in DOMAIN f.files
    /\ f.files[<<"workspace.json">>].t = "obj"
    /\ \A i \in 1..Len(ListedProjects(f)) : ListedProjects(f)[i].t # "null"

\* C15, amended: the declarations are the root fields of the projects of
\* workspace.json when that file exists, parses and lists no null project; in every
\* other case (the file is missing, does not parse, or lists a null project) they are
\* the listing of apps/ and libs/.
C15_FallbackUnlessProjectsRead ==
    NxChecked =>
        /\ ret.isNx <=> <<"nx.json">> \in DOMAIN fs.files
        /\ ret.isNx =>
               IF ProjectsRead(fs)
               THEN ret.projects = Arr(ListedRoots(fs))
               ELSE ret.projects = Arr(FallbackListing(fs))

\* nx.json beside a workspace.json that does not parse: the detector claimed the tree
\* and declared apps/web and libs/ui from the listing.
C15_Witness ==
    /\ NxChecked
    /\ <<"workspace.json">> \in DOMAIN fs.files
    /\ fs.files[<<"workspace.json">>] = Raw
    /\ ret.isNx
    /\ ret.projects = Arr(<<Str(AppsWeb), Str(LibsUi)>>)

(***************************************************************************)
(* One invocation of getProjectInfo taken read by read, while another      *)
(* process creates and deletes yarn.lock and package.json.  The invocation *)
(* reads the tree in three groups: the lockfile probes of                  *)
(* detectPackageManager, the detectors and the resolver of                 *)
(* detectMonorepoType, and the root manifest with tsconfig.json.  Each     *)
(* group is taken as one step, and the other process acts between steps.   *)
(***************************************************************************)
MaxChanges == 2

RaceManifest == [t |-> "obj", name |-> RootName, workspaces |-> Arr(<<GlobApps>>)] @@ RootDeps

RaceTree(pkg, yarn, npm) ==
    RootTree(pkg, Absent, yarn, FALSE, npm, Absent, FALSE, Absent, Absent, TRUE)

RaceTrees ==
    {RaceTree(pkg, yarn, npm) :
        pkg \in {Absent, RaceManifest}, yarn \in BOOLEAN, npm \in BOOLEAN}

RootManifestOf(f) == IF PackageJson \in DOMAIN f.files THEN f.files[PackageJson] ELSE Absent

InitRace ==
    /\ fs \in RaceTrees
    /\ arg = Str(ProjectPath)
    /\ op = "none"
    /\ ret = Undefined
    /\ frame = [pc |-> "start"]
    /\ snapshots = <<fs>>

\* result.packageManager = await detectPackageManager(projectPath)
ReadPackageManager ==
    /\ frame.pc = "start"
    /\ frame' = [pc |-> "packageManager", packageManager |-> detectPackageManager(fs)]
    /\ UNCHANGED <<fs, op, arg, ret, snapshots>>

\* The rest of detectMonorepoType: the detectors in order and the analysis of the
\* first that claims; result.packageManager keeps the value read before.  An analysis
\* that throws ends the invocation in the outer catch of getProjectInfo.
ReadConventions ==
    /\ frame.pc = "packageManager"
    /\ LET result == detectMonorepoType(fs)
       IN IF result = Throw
          THEN /\ frame' = [pc |-> "done"]
               /\ op' = "getProjectInfo"
               /\ ret' = TextBlock(ErrorLine)
          ELSE /\ frame' = [pc |-> "monorepoInfo",
                            monorepoInfo |->
                                [result EXCEPT !.packageManager = frame.packageManager]]
               /\ UNCHANGED <<op, ret>>
    /\ UNCHANGED <<fs, arg, snapshots>>

\* The root manifest and tsconfig.json are read and the report is rendered.
ReadManifest ==
    /\ frame.pc = "monorepoInfo"
    /\ frame' = [pc |-> "done"]
    /\ op' = "getProjectInfo"
    /\ ret' = TextBlock(ProjectReportOf(fs, frame.monorepoInfo))
    /\ UNCHANGED <<fs, arg, snapshots>>

\* Another process changes the tree while the invocation is in flight.
Change(tree) ==
    /\ frame.pc \in {"start", "packageManager", "monorepoInfo"}
    /\ Len(snapshots) <= MaxChanges
    /\ fs' = tree
    /\ snapshots' = Append(snapshots, tree)
    /\ UNCHANGED <<op, arg, ret, frame>>

ChangeYarnLock ==
    Change(RaceTree(RootManifestOf(fs), ~(YarnLock \in DOMAIN fs.files),
                    NpmLock \in DOMAIN fs.files))

ChangePackageJson ==
    Change(RaceTree(IF RootManifestOf(fs) = Absent THEN RaceManifest ELSE Absent,
                    YarnLock \in DOMAIN fs.files, NpmLock \in DOMAIN fs.files))

NextRace ==
    \/ ReadPackageManager
    \/ ReadConventions
    \/ ReadManifest
    \/ ChangeYarnLock
    \/ ChangePackageJson

SpecRace == InitRace /\ [][NextRace]_vars

\* C14: the report of an invocation is the report of one of the trees that existed
\* during the invocation, whatever another process changed between its reads.
C14_ReportOfOneTreeState ==
    frame.pc = "done" =>
        \E i \in 1..Len(snapshots) : ret = getProjectInfo(snapshots[i])

====
